---- MODULE Spec2Model ----
(***************************************************************************)
(* Model of the quotes / comments / users canister of src/src/index.ts     *)
(* (first revision of the file, lines 1-281).                              *)
(*                                                                         *)
(* Strings that are only compared are TLA+ strings (names, texts, error    *)
(* messages).  Strings that are concatenated to build a storage key (ids   *)
(* and pin codes) are sequences of characters, a character being a small   *)
(* natural number, so that `id + pinCode` is the concatenation id \o pin.  *)
(* All uuids have the same length: here one character.                     *)
(***************************************************************************)
EXTENDS Integers, Sequences, FiniteSets, TLC

\* ------------------------------------------------------------------ bounds
\* number of records (users, quotes and comments together) created in one run
MaxRecords == 5

\* The ids of a run, per collection: uuidv4() returns one of them, and an id
\* given as an argument is one of them too (the id of a stored record, of a
\* removed record, or one never handed out).
Ids == { <<1>>, <<2>> }
UserIds == Ids
QuoteIds == Ids
CommentIds == Ids
\* what uuidv4() returns in a call that never reaches it
NoId == <<0>>
\* Inputs of the calls.  The empty name and the empty pin code are the inputs
\* validateUserInput refuses; the empty pin code is also the wrong credential
\* of a stored user.
Names == {"", "alice", "Alice"}
PinCodes == { <<>>, <<1>> }
QuoteTexts == {"hello"}
CommentTexts == {"nice"}
\* ic.time(): no handler reads a timestamp back or compares two of them, so
\* the clock's value is one opaque token
IcTime == "time"

None == "None"
\* a value of type T | undefined
Undefined == [defined |-> FALSE]
Defined(v) == [defined |-> TRUE, val |-> v]

VARIABLES
    userStorage,     \* key (id + pinCode) -> User
    quoteStorage,    \* key (id) -> Quote
    commentStorage,  \* key (id) -> Comment
    issued,          \* per collection, the ids uuidv4() has returned so far
    createdUsers,    \* history: id and name of every user a newUser call returned
    last             \* the last call: operation, arguments, result, stores before it

vars == <<userStorage, quoteStorage, commentStorage, issued, createdUsers, last>>

\* ------------------------------------------------------------ Result, Opt
Ok(v) == [ok |-> TRUE, val |-> v]
Err(m) == [ok |-> FALSE, err |-> m]
IsErr(r) == ~r.ok

\* --------------------------------------------------------- StableBTreeMap
EmptyMap == << >>

\* lexicographic order on keys, the order StableBTreeMap iterates in
RECURSIVE KeyLess(_, _)
KeyLess(a, b) ==
    IF a = <<>> THEN b # <<>>
    ELSE IF b = <<>> THEN FALSE
    ELSE IF Head(a) # Head(b) THEN Head(a) < Head(b)
    ELSE KeyLess(Tail(a), Tail(b))

RECURSIVE SortedKeys(_)
SortedKeys(S) ==
    IF S = {} THEN <<>>
    ELSE LET k == CHOOSE x \in S : \A y \in S \ {x} : KeyLess(x, y)
         IN <<k>> \o SortedKeys(S \ {k})

MapValues(m) ==
    LET ks == SortedKeys(DOMAIN m)
    IN [i \in 1..Len(ks) |-> m[ks[i]]]

MapInsert(m, k, v) == [x \in (DOMAIN m) \cup {k} |-> IF x = k THEN v ELSE m[x]]

\* remove returns Opt<Value>; the map after it is MapRemove
MapRemoved(m, k) == IF k \in DOMAIN m THEN [some |-> TRUE, val |-> m[k]] ELSE [some |-> FALSE]
MapRemove(m, k) == [x \in (DOMAIN m) \ {k} |-> m[x]]

\* the elements of an array
Elems(s) == { s[i] : i \in 1..Len(s) }

\* Array.prototype.find: the first element of s that satisfies the callback,
\* or undefined; matching is the set of the elements that satisfy it
Find(s, matching) ==
    IF \E i \in 1..Len(s) : s[i] \in matching
    THEN Defined(s[CHOOSE i \in 1..Len(s) :
                       s[i] \in matching /\ \A j \in 1..(i - 1) : s[j] \notin matching])
    ELSE Undefined

\* Array.prototype.filter: the elements of s that satisfy the callback, in order
Filter(s, matching) == SelectSeq(s, LAMBDA x : x \in matching)

\* ------------------------------------------------------------------ state
DB == [users |-> userStorage, quotes |-> quoteStorage, comments |-> commentStorage]

Init ==
    /\ userStorage = EmptyMap
    /\ quoteStorage = EmptyMap
    /\ commentStorage = EmptyMap
    /\ issued = [users |-> {}, quotes |-> {}, comments |-> {}]
    /\ createdUsers = {}
    /\ last = [op |-> "init", args |-> <<>>, res |-> Err("init"), pre |-> [users |-> EmptyMap, quotes |-> EmptyMap, comments |-> EmptyMap]]

\* --------------------------------------------------------------- handlers
\* A handler is an operator from the stores before the call (db) and the
\* call's inputs to the result and the stores after it.
Ret(db, res) == [db |-> db, res |-> res]

validateUserInput(payload) ==
    IF payload.name = "" \/ payload.pinCode = <<>>
    THEN Err("Invalid input: name and pinCode are required.")
    ELSE Ok(Undefined)

validateQuoteInput(newUserQuote, allUsers) ==
    LET SameId(u) == u.id = newUserQuote.authorId
        userThatComments == Find(allUsers, {x \in Elems(allUsers) : SameId(x)})
    IN IF ~userThatComments.defined
       THEN Err("Author with given ID not found.")
       ELSE Ok(Undefined)

validateCommentInput(newComment, allUsers) ==
    LET SameId(u) == u.id = newComment.authorId
        userThatComments == Find(allUsers, {x \in Elems(allUsers) : SameId(x)})
    IN IF ~userThatComments.defined
       THEN Err("Author with given ID not found.")
       ELSE Ok(Undefined)

QuoteToDisplay(singleQuote) ==
    [id |-> singleQuote.id, quote |-> singleQuote.quote, author |-> singleQuote.author]

CommentsToDisplay(c) == [comment |-> c.comment, author |-> c.authorName]

\* faulty variant of the handler below: an empty store answered with an empty success list
getAllQuotesEmptyOk(db) ==
    LET allQuotes == MapValues(db.quotes)
    IN Ret(db, Ok([i \in 1..Len(allQuotes) |-> QuoteToDisplay(allQuotes[i])]))

getAllQuotes(db) ==
    LET allQuotes == MapValues(db.quotes)
    IN IF Len(allQuotes) = 0
       THEN Ret(db, Err("At the moment there is no quote..."))
       ELSE Ret(db, Ok([i \in 1..Len(allQuotes) |-> QuoteToDisplay(allQuotes[i])]))

\* faulty variant of the handler below: the quote is not looked up
getQuoteCommentsNoQuoteCheck(db, quoteId) ==
    LET allComments == MapValues(db.comments)
        OnQuote(c) == c.quoteId = quoteId
        quoteComments == Filter(allComments, {x \in Elems(allComments) : OnQuote(x)})
    IN IF Len(quoteComments) = 0
       THEN Ret(db, Err("No comments found for this quote."))
       ELSE Ret(db, Ok([i \in 1..Len(quoteComments) |-> CommentsToDisplay(quoteComments[i])]))

getQuoteComments(db, quoteId) ==
    LET allQuotes == MapValues(db.quotes)
        SameId(q) == q.id = quoteId
        quoteById == Find(allQuotes, {x \in Elems(allQuotes) : SameId(x)})
        allComments == MapValues(db.comments)
        OnQuote(c) == c.quoteId = quoteId
        quoteComments == Filter(allComments, {x \in Elems(allComments) : OnQuote(x)})
    IN IF ~quoteById.defined
       THEN Ret(db, Err("No quote found with the given ID."))
       ELSE IF Len(quoteComments) = 0
       THEN Ret(db, Err("No comments found for this quote."))
       ELSE Ret(db, Ok([i \in 1..Len(quoteComments) |-> CommentsToDisplay(quoteComments[i])]))

\* faulty variant of the handler below: a lookup that writes the user it found
\* back with insert, under the id alone
getMyUserDataWriting(db, payload) ==
    LET allUsers == MapValues(db.users)
        Match(u) == u.name = payload.name /\ u.pinCode = payload.pinCode
        userData == Find(allUsers, {x \in Elems(allUsers) : Match(x)})
    IN IF ~userData.defined
       THEN Ret(db, Err("No user found with these credentials"))
       ELSE Ret([db EXCEPT !.users = MapInsert(@, userData.val.id, userData.val)],
                Ok(userData.val))

getMyUserData(db, payload) ==
    LET allUsers == MapValues(db.users)
        Match(u) == u.name = payload.name /\ u.pinCode = payload.pinCode
        userData == Find(allUsers, {x \in Elems(allUsers) : Match(x)})
    IN IF ~userData.defined
       THEN Ret(db, Err("No user found with these credentials"))
       ELSE Ret(db, Ok(userData.val))

\* faulty variant of the handler below: the scan for a user of the same name left out
newUserNoNameCheck(db, payload, id, t) ==
    LET validation == validateUserInput(payload)
        user == [id |-> id, created |-> t, lastUpdate |-> None,
                 name |-> payload.name, pinCode |-> payload.pinCode]
    IN IF IsErr(validation) THEN Ret(db, Err(validation.err))
       ELSE Ret([db EXCEPT !.users = MapInsert(@, user.id \o user.pinCode, user)], Ok(user))

\* faulty variant of the handler below: the user is stored under the id alone
newUserKeyedById(db, payload, id, t) ==
    LET validation == validateUserInput(payload)
        allUsers == MapValues(db.users)
        SameName(u) == u.name = payload.name
        checkUserName == Find(allUsers, {x \in Elems(allUsers) : SameName(x)})
        user == [id |-> id, created |-> t, lastUpdate |-> None,
                 name |-> payload.name, pinCode |-> payload.pinCode]
    IN IF IsErr(validation) THEN Ret(db, Err(validation.err))
       ELSE IF checkUserName.defined
       THEN Ret(db, Err("Sorry, this name is already in use..."))
       ELSE Ret([db EXCEPT !.users = MapInsert(@, user.id, user)], Ok(user))

\* id is the value uuidv4() returns, t the value ic.time() returns
newUser(db, payload, id, t) ==
    LET validation == validateUserInput(payload)
        allUsers == MapValues(db.users)
        SameName(u) == u.name = payload.name
        checkUserName == Find(allUsers, {x \in Elems(allUsers) : SameName(x)})
        user == [id |-> id, created |-> t, lastUpdate |-> None,
                 name |-> payload.name, pinCode |-> payload.pinCode]
    IN IF IsErr(validation) THEN Ret(db, Err(validation.err))
       ELSE IF checkUserName.defined
       THEN Ret(db, Err("Sorry, this name is already in use..."))
       ELSE Ret([db EXCEPT !.users = MapInsert(@, user.id \o user.pinCode, user)], Ok(user))

\* faulty variant of the handler below: the author is not looked up before the quote is stored
newQuoteUnchecked(db, newUserQuote, id, t) ==
    LET allUsers == MapValues(db.users)
        SameId(u) == u.id = newUserQuote.authorId
        userThatComments == Find(allUsers, {x \in Elems(allUsers) : SameId(x)})
        quote == [id |-> id, created |-> t, lastUpdate |-> None,
                  author |-> IF userThatComments.defined
                             THEN userThatComments.val.name ELSE "",
                  authorId |-> newUserQuote.authorId, quote |-> newUserQuote.quote]
    IN Ret([db EXCEPT !.quotes = MapInsert(@, quote.id, quote)], Ok(quote))

\* faulty variant of the handler below: the name copied is that of the first
\* stored user, not that of the author
newQuoteFirstUserName(db, newUserQuote, id, t) ==
    LET allUsers == MapValues(db.users)
        validation == validateQuoteInput(newUserQuote, allUsers)
        quote == [id |-> id, created |-> t, lastUpdate |-> None,
                  author |-> allUsers[1].name,
                  authorId |-> newUserQuote.authorId, quote |-> newUserQuote.quote]
    IN IF IsErr(validation) THEN Ret(db, Err(validation.err))
       ELSE Ret([db EXCEPT !.quotes = MapInsert(@, quote.id, quote)], Ok(quote))

newQuote(db, newUserQuote, id, t) ==
    LET allUsers == MapValues(db.users)
        validation == validateQuoteInput(newUserQuote, allUsers)
        SameId(u) == u.id = newUserQuote.authorId
        userThatComments == Find(allUsers, {x \in Elems(allUsers) : SameId(x)})
        quote == [id |-> id, created |-> t, lastUpdate |-> None,
                  author |-> userThatComments.val.name,
                  authorId |-> newUserQuote.authorId, quote |-> newUserQuote.quote]
    IN IF IsErr(validation) THEN Ret(db, Err(validation.err))
       ELSE IF ~userThatComments.defined
       THEN Ret(db, Err("Author with given ID not found."))
       ELSE Ret([db EXCEPT !.quotes = MapInsert(@, quote.id, quote)], Ok(quote))

addComment(db, newComment, id, t) ==
    LET allUsers == MapValues(db.users)
        validation == validateCommentInput(newComment, allUsers)
        SameId(u) == u.id = newComment.authorId
        userThatComments == Find(allUsers, {x \in Elems(allUsers) : SameId(x)})
        commentToAdd == [id |-> id, authorName |-> userThatComments.val.name,
                         created |-> t, lastUpdate |-> None,
                         authorId |-> newComment.authorId,
                         quoteId |-> newComment.quoteId,
                         comment |-> newComment.comment]
    IN IF IsErr(validation) THEN Ret(db, Err(validation.err))
       ELSE IF ~userThatComments.defined
       THEN Ret(db, Err("Author with given ID not found."))
       ELSE Ret([db EXCEPT !.comments = MapInsert(@, commentToAdd.id, commentToAdd)],
                Ok(commentToAdd))

\* faulty variant of the handler below: the comment is checked first and removed only when both checks pass
deleteCommentValidateFirst(db, quoteId, commentId, authorId) ==
    LET deleteResult == MapRemoved(db.comments, commentId)
        after == [db EXCEPT !.comments = MapRemove(@, commentId)]
    IN IF deleteResult.some
       THEN LET commentToDelete == deleteResult.val
            IN IF commentToDelete.quoteId # quoteId
               THEN Ret(db, Err("This comment is not on the given quote."))
               ELSE IF commentToDelete.authorId # authorId
               THEN Ret(db, Err("Unable to delete the comment, you are not the author."))
               ELSE Ret(after, Ok(commentToDelete))
       ELSE Ret(db, Err("Comment with given Id not found."))

deleteComment(db, quoteId, commentId, authorId) ==
    LET deleteResult == MapRemoved(db.comments, commentId)
        after == [db EXCEPT !.comments = MapRemove(@, commentId)]
    IN IF deleteResult.some
       THEN LET commentToDelete == deleteResult.val
            IN IF commentToDelete.quoteId # quoteId
               THEN Ret(after, Err("This comment is not on the given quote."))
               ELSE IF commentToDelete.authorId # authorId
               THEN Ret(after, Err("Unable to delete the comment, you are not the author."))
               ELSE Ret(after, Ok(commentToDelete))
       ELSE Ret(after, Err("Comment with given Id not found."))

\* commentsToDelete.forEach(c => deleteComment(quoteId, c.id, authorId)):
\* the results of the inner calls are dropped
RECURSIVE ForEachDeleteComment(_, _, _, _)
ForEachDeleteComment(db, commentsToDelete, quoteId, authorId) ==
    IF commentsToDelete = <<>> THEN db
    ELSE ForEachDeleteComment(
             deleteComment(db, quoteId, Head(commentsToDelete).id, authorId).db,
             Tail(commentsToDelete), quoteId, authorId)

\* faulty variant of the handler below: the quote is removed and its comments are left behind
deleteQuoteNoCascade(db, quoteId, authorId) ==
    LET allQuotes == MapValues(db.quotes)
        Owned(q) == q.id = quoteId /\ q.authorId = authorId
        ownedQuote == Find(allQuotes, {x \in Elems(allQuotes) : Owned(x)})
        deleteResult == MapRemoved(db.quotes, quoteId)
        after == [db EXCEPT !.quotes = MapRemove(@, quoteId)]
    IN IF ~ownedQuote.defined
       THEN Ret(db, Err("You cannot delete the quote because you are not the owner."))
       ELSE IF deleteResult.some
       THEN Ret(after, Ok(deleteResult.val))
       ELSE Ret(after, Err("Quote with given Id not found."))

\* faulty variant of the handler below: the quote is looked up by its id alone, whoever asks
deleteQuoteAnyCaller(db, quoteId, authorId) ==
    LET allQuotes == MapValues(db.quotes)
        ById(q) == q.id = quoteId
        ownedQuote == Find(allQuotes, {x \in Elems(allQuotes) : ById(x)})
        deleteResult == MapRemoved(db.quotes, quoteId)
        after == [db EXCEPT !.quotes = MapRemove(@, quoteId)]
        allComments == MapValues(after.comments)
        OnQuote(c) == c.quoteId = quoteId
        commentsToDelete == Filter(allComments, {x \in Elems(allComments) : OnQuote(x)})
    IN IF ~ownedQuote.defined
       THEN Ret(db, Err("You cannot delete the quote because you are not the owner."))
       ELSE IF deleteResult.some
       THEN Ret(IF Len(commentsToDelete) # 0
                THEN ForEachDeleteComment(after, commentsToDelete, quoteId, authorId)
                ELSE after,
                Ok(deleteResult.val))
       ELSE Ret(after, Err("Quote with given Id not found."))

\* faulty variant of the handler below: the cascade removes every stored comment
deleteQuoteAllComments(db, quoteId, authorId) ==
    LET allQuotes == MapValues(db.quotes)
        Owned(q) == q.id = quoteId /\ q.authorId = authorId
        ownedQuote == Find(allQuotes, {x \in Elems(allQuotes) : Owned(x)})
        deleteResult == MapRemoved(db.quotes, quoteId)
        after == [db EXCEPT !.quotes = MapRemove(@, quoteId)]
    IN IF ~ownedQuote.defined
       THEN Ret(db, Err("You cannot delete the quote because you are not the owner."))
       ELSE IF deleteResult.some
       THEN Ret([after EXCEPT !.comments = EmptyMap], Ok(deleteResult.val))
       ELSE Ret(after, Err("Quote with given Id not found."))

deleteQuote(db, quoteId, authorId) ==
    LET allQuotes == MapValues(db.quotes)
        Owned(q) == q.id = quoteId /\ q.authorId = authorId
        ownedQuote == Find(allQuotes, {x \in Elems(allQuotes) : Owned(x)})
        deleteResult == MapRemoved(db.quotes, quoteId)
        after == [db EXCEPT !.quotes = MapRemove(@, quoteId)]
        allComments == MapValues(after.comments)
        OnQuote(c) == c.quoteId = quoteId
        commentsToDelete == Filter(allComments, {x \in Elems(allComments) : OnQuote(x)})
    IN IF ~ownedQuote.defined
       THEN Ret(db, Err("You cannot delete the quote because you are not the owner."))
       ELSE IF deleteResult.some
       THEN Ret(IF Len(commentsToDelete) # 0
                THEN ForEachDeleteComment(after, commentsToDelete, quoteId, authorId)
                ELSE after,
                Ok(deleteResult.val))
       ELSE Ret(after, Err("Quote with given Id not found."))

\* userQuotes.forEach(q => deleteQuote(q.id, userId))
RECURSIVE ForEachDeleteQuote(_, _, _)
ForEachDeleteQuote(db, userQuotes, userId) ==
    IF userQuotes = <<>> THEN db
    ELSE ForEachDeleteQuote(deleteQuote(db, Head(userQuotes).id, userId).db,
                            Tail(userQuotes), userId)

\* faulty variant of the handler below: the user is removed and the quotes of the user are left behind
deleteUserNoCascade(db, userId, pinCode) ==
    LET allUsers == MapValues(db.users)
        SameId(u) == u.id = userId
        userById == Find(allUsers, {x \in Elems(allUsers) : SameId(x)})
        deleteResult == MapRemoved(db.users, userId \o pinCode)
        after == [db EXCEPT !.users = MapRemove(@, userId \o pinCode)]
    IN IF ~userById.defined \/ userById.val.pinCode # pinCode
       THEN Ret(db, Err("Unable to delete user, wrong credentials."))
       ELSE IF deleteResult.some
       THEN Ret(after, Ok(deleteResult.val))
       ELSE Ret(after, Err("No user found with those credentials."))

\* faulty variant of the handler below: the user's quotes are removed before
\* the credentials are checked
deleteUserCascadeFirst(db, userId, pinCode) ==
    LET allUsers == MapValues(db.users)
        SameId(u) == u.id = userId
        userById == Find(allUsers, {x \in Elems(allUsers) : SameId(x)})
        allQuotes == MapValues(db.quotes)
        ByUser(q) == q.authorId = userId
        userQuotes == Filter(allQuotes, {x \in Elems(allQuotes) : ByUser(x)})
        cascaded == IF Len(userQuotes) # 0
                    THEN ForEachDeleteQuote(db, userQuotes, userId)
                    ELSE db
        deleteResult == MapRemoved(db.users, userId \o pinCode)
        after == [cascaded EXCEPT !.users = MapRemove(@, userId \o pinCode)]
    IN IF ~userById.defined \/ userById.val.pinCode # pinCode
       THEN Ret(cascaded, Err("Unable to delete user, wrong credentials."))
       ELSE IF deleteResult.some
       THEN Ret(after, Ok(deleteResult.val))
       ELSE Ret(after, Err("No user found with those credentials."))

\* faulty variant of the handler below: the comments the user wrote are removed
\* as well, on whatever quote they sit
deleteUserWithOwnComments(db, userId, pinCode) ==
    LET allUsers == MapValues(db.users)
        SameId(u) == u.id = userId
        userById == Find(allUsers, {x \in Elems(allUsers) : SameId(x)})
        deleteResult == MapRemoved(db.users, userId \o pinCode)
        after == [db EXCEPT !.users = MapRemove(@, userId \o pinCode)]
        allQuotes == MapValues(after.quotes)
        ByUser(q) == q.authorId = userId
        userQuotes == Filter(allQuotes, {x \in Elems(allQuotes) : ByUser(x)})
        cascaded == IF Len(userQuotes) # 0
                    THEN ForEachDeleteQuote(after, userQuotes, userId)
                    ELSE after
        kept == { k \in DOMAIN cascaded.comments : cascaded.comments[k].authorId # userId }
    IN IF ~userById.defined \/ userById.val.pinCode # pinCode
       THEN Ret(db, Err("Unable to delete user, wrong credentials."))
       ELSE IF deleteResult.some
       THEN Ret([cascaded EXCEPT !.comments = [k \in kept |-> cascaded.comments[k]]],
                Ok(deleteResult.val))
       ELSE Ret(after, Err("No user found with those credentials."))

deleteUser(db, userId, pinCode) ==
    LET allUsers == MapValues(db.users)
        SameId(u) == u.id = userId
        userById == Find(allUsers, {x \in Elems(allUsers) : SameId(x)})
        deleteResult == MapRemoved(db.users, userId \o pinCode)
        after == [db EXCEPT !.users = MapRemove(@, userId \o pinCode)]
        allQuotes == MapValues(after.quotes)
        ByUser(q) == q.authorId = userId
        userQuotes == Filter(allQuotes, {x \in Elems(allQuotes) : ByUser(x)})
    IN IF ~userById.defined \/ userById.val.pinCode # pinCode
       THEN Ret(db, Err("Unable to delete user, wrong credentials."))
       ELSE IF deleteResult.some
       THEN Ret(IF Len(userQuotes) # 0
                THEN ForEachDeleteQuote(after, userQuotes, userId)
                ELSE after,
                Ok(deleteResult.val))
       ELSE Ret(after, Err("No user found with those credentials."))

\* ---------------------------------------------------------------- actions
\* One call of the canister.  Calls are executed one at a time, each to
\* completion.  last records the call, its result and the stores before it.
Commit(op, args, r) ==
    /\ userStorage' = r.db.users
    /\ quoteStorage' = r.db.quotes
    /\ commentStorage' = r.db.comments
    /\ last' = [op |-> op, args |-> args, res |-> r.res, pre |-> DB]

\* uuidv4() never returns the same id twice for one collection.  Once the
\* run has created MaxRecords records, or the pool is used up, only the calls
\* that fail before reaching uuidv4() are admitted.
FreshIds(coll) ==
    IF Cardinality(issued.users) + Cardinality(issued.quotes)
           + Cardinality(issued.comments) < MaxRecords
    THEN (Ids \ issued[coll]) \cup {NoId}
    ELSE {NoId}

Fresh(coll, id, r) ==
    /\ r.res.ok <=> id # NoId
    /\ issued' = IF r.res.ok THEN [issued EXCEPT ![coll] = @ \cup {id}] ELSE issued

CallGetAllQuotes ==
    \E r \in {getAllQuotes(DB)} :
        /\ Commit("getAllQuotes", <<>>, r)
        /\ UNCHANGED <<issued, createdUsers>>

CallGetQuoteComments ==
    \E quoteId \in QuoteIds :
        \E r \in {getQuoteComments(DB, quoteId)} :
            /\ Commit("getQuoteComments", [quoteId |-> quoteId], r)
            /\ UNCHANGED <<issued, createdUsers>>

CallGetMyUserData ==
    \E name \in Names, pinCode \in PinCodes :
        \E r \in {getMyUserData(DB, [name |-> name, pinCode |-> pinCode])} :
            /\ Commit("getMyUserData", [name |-> name, pinCode |-> pinCode], r)
            /\ UNCHANGED <<issued, createdUsers>>

CallNewUser ==
    \E name \in Names, pinCode \in PinCodes, id \in FreshIds("users") :
        \E r \in {newUser(DB, [name |-> name, pinCode |-> pinCode], id, IcTime)} :
            /\ Commit("newUser", [name |-> name, pinCode |-> pinCode], r)
            /\ Fresh("users", id, r)
            /\ createdUsers' = IF r.res.ok
                               THEN createdUsers \cup {[id |-> r.res.val.id, name |-> r.res.val.name]}
                               ELSE createdUsers

CallNewQuote ==
    \E authorId \in UserIds, quote \in QuoteTexts, id \in FreshIds("quotes") :
        \E r \in {newQuote(DB, [authorId |-> authorId, quote |-> quote], id, IcTime)} :
            /\ Commit("newQuote", [authorId |-> authorId, quote |-> quote], r)
            /\ Fresh("quotes", id, r)
            /\ UNCHANGED createdUsers

CallAddComment ==
    \E authorId \in UserIds, quoteId \in QuoteIds, comment \in CommentTexts,
       id \in FreshIds("comments") :
        \E r \in {addComment(DB, [authorId |-> authorId, quoteId |-> quoteId,
                                  comment |-> comment], id, IcTime)} :
            /\ Commit("addComment",
                      [authorId |-> authorId, quoteId |-> quoteId, comment |-> comment], r)
            /\ Fresh("comments", id, r)
            /\ UNCHANGED createdUsers

CallDeleteQuote ==
    \E quoteId \in QuoteIds, authorId \in UserIds :
        \E r \in {deleteQuote(DB, quoteId, authorId)} :
            /\ Commit("deleteQuote", [quoteId |-> quoteId, authorId |-> authorId], r)
            /\ UNCHANGED <<issued, createdUsers>>

CallDeleteComment ==
    \E quoteId \in QuoteIds, commentId \in CommentIds, authorId \in UserIds :
        \E r \in {deleteComment(DB, quoteId, commentId, authorId)} :
            /\ Commit("deleteComment",
                      [quoteId |-> quoteId, commentId |-> commentId, authorId |-> authorId], r)
            /\ UNCHANGED <<issued, createdUsers>>

CallDeleteUser ==
    \E userId \in UserIds, pinCode \in PinCodes :
        \E r \in {deleteUser(DB, userId, pinCode)} :
            /\ Commit("deleteUser", [userId |-> userId, pinCode |-> pinCode], r)
            /\ UNCHANGED <<issued, createdUsers>>

Next ==
    \/ CallGetAllQuotes
    \/ CallGetQuoteComments
    \/ CallGetMyUserData
    \/ CallNewUser
    \/ CallNewQuote
    \/ CallAddComment
    \/ CallDeleteQuote
    \/ CallDeleteComment
    \/ CallDeleteUser

Spec == Init /\ [][Next]_vars


\* ----------------------------------------------------------------- claims
\* Vocabulary of the claims: the call last made, the stores before it (last.pre)
\* and the stores after it (the current ones).
Called(op) == last.op = op
Failed(m) == ~last.res.ok /\ last.res.err = m
StoresUnchanged == DB = last.pre
RecordsOf(m) == { m[k] : k \in DOMAIN m }

UnknownAuthor == "Author with given ID not found."
UnknownQuote == "No quote found with the given ID."
EmptyResult == "At the moment there is no quote..."
Mismatch == "This comment is not on the given quote."
UnauthorizedComment == "Unable to delete the comment, you are not the author."
NotOwner == "You cannot delete the quote because you are not the owner."

\* the quotes the user owned when deleteUser was called
QuotesOwnedBefore(userId) == { q \in RecordsOf(last.pre.quotes) : q.authorId = userId }

QuoteNotFound == "Quote with given Id not found."
NoComments == "No comments found for this quote."

\* C1: after deleteUser(id, pin) returns Ok, no stored quote has authorId = id,
\* no stored comment sits on a quote that user owned when the call was made,
\* and getQuoteComments on each of those quotes answers 'No quote found with
\* the given ID.'
C1_CascadeComplete ==
    (Called("deleteUser") /\ last.res.ok) =>
        /\ \A q \in RecordsOf(quoteStorage) : q.authorId # last.args.userId
        /\ \A q \in QuotesOwnedBefore(last.args.userId) :
              /\ \A c \in RecordsOf(commentStorage) : c.quoteId # q.id
              /\ LET r == getQuoteComments(DB, q.id).res
                 IN ~r.ok /\ r.err = UnknownQuote

\* a deleteUser that succeeded on a user owning a quote that carried a comment
\* written by somebody else
C1_Witness ==
    /\ Called("deleteUser") /\ last.res.ok
    /\ \E q \in QuotesOwnedBefore(last.args.userId) :
          \E c \in RecordsOf(last.pre.comments) :
              c.quoteId = q.id /\ c.authorId # last.args.userId

\* C2: no two stored users have the same name (names compared as they are,
\* "alice" and "Alice" being different names)
C2_UniqueNames ==
    \A k1, k2 \in DOMAIN userStorage :
        k1 # k2 => userStorage[k1].name # userStorage[k2].name

\* two users are stored and a newUser call with the name of one of them has
\* just been refused
C2_Witness ==
    /\ Cardinality(DOMAIN userStorage) = 2
    /\ Called("newUser") /\ Failed("Sorry, this name is already in use...")
    /\ \E u \in RecordsOf(userStorage) : u.name = last.args.name

\* C3: every stored quote's authorId is the id of a stored user
C3_QuoteAuthorLive ==
    \A q \in RecordsOf(quoteStorage) :
        \E u \in RecordsOf(userStorage) : u.id = q.authorId

\* a deleteUser that removed a user together with a quote, another user's quote
\* staying stored
C3_Witness ==
    /\ Called("deleteUser") /\ last.res.ok
    /\ QuotesOwnedBefore(last.args.userId) # {}
    /\ quoteStorage # EmptyMap

\* C4: every stored comment's quoteId is the id of a stored quote
C4_CommentQuoteLive ==
    \A c \in RecordsOf(commentStorage) :
        \E q \in RecordsOf(quoteStorage) : q.id = c.quoteId

\* C5: newQuote with an authorId that no stored user has returns 'Author with
\* given ID not found.' and leaves the three stores as they were
C5_NewQuoteUnknownAuthor ==
    (/\ Called("newQuote")
     /\ \A u \in RecordsOf(last.pre.users) : u.id # last.args.authorId) =>
        Failed(UnknownAuthor) /\ StoresUnchanged

\* a newQuote refused for its authorId while another user is stored
C5_Witness ==
    /\ Called("newQuote") /\ Failed(UnknownAuthor)
    /\ last.pre.users # EmptyMap
    /\ \A u \in RecordsOf(last.pre.users) : u.id # last.args.authorId

\* C6: addComment with a stored author and a quoteId that no stored quote has
\* fails and inserts no comment
C6_AddCommentUnknownQuote ==
    (/\ Called("addComment")
     /\ \E u \in RecordsOf(last.pre.users) : u.id = last.args.authorId
     /\ \A q \in RecordsOf(last.pre.quotes) : q.id # last.args.quoteId) =>
        ~last.res.ok /\ commentStorage = last.pre.comments

\* C7: deleteQuote on a stored quote whose authorId is not the argument returns
\* an error and removes nothing
C7_DeleteQuoteNotOwner ==
    (/\ Called("deleteQuote")
     /\ \E q \in RecordsOf(last.pre.quotes) :
           q.id = last.args.quoteId /\ q.authorId # last.args.authorId) =>
        /\ ~last.res.ok
        /\ StoresUnchanged
        /\ last.args.quoteId \in DOMAIN quoteStorage

\* a deleteQuote refused on a stored quote that carries a comment, the caller
\* being a stored user who does not own it
C7_Witness ==
    /\ Called("deleteQuote") /\ Failed(NotOwner)
    /\ \E q \in RecordsOf(quoteStorage) :
          /\ q.id = last.args.quoteId /\ q.authorId # last.args.authorId
          /\ \E c \in RecordsOf(commentStorage) : c.quoteId = q.id
    /\ \E u \in RecordsOf(userStorage) : u.id = last.args.authorId

\* C8: deleteComment removes the stored comment with the given id before any
\* check; it then answers Mismatch if the comment's quoteId is not the
\* argument, else Unauthorized if its authorId is not the argument, else Ok
\* with the comment
C8_DeleteCommentRemovesFirst ==
    (Called("deleteComment") /\ last.args.commentId \in DOMAIN last.pre.comments) =>
        LET c == last.pre.comments[last.args.commentId]
        IN /\ commentStorage = MapRemove(last.pre.comments, last.args.commentId)
           /\ userStorage = last.pre.users /\ quoteStorage = last.pre.quotes
           /\ IF c.quoteId # last.args.quoteId THEN Failed(Mismatch)
              ELSE IF c.authorId # last.args.authorId THEN Failed(UnauthorizedComment)
              ELSE last.res.ok /\ last.res.val = c

\* a deleteComment that answered Unauthorized and removed the comment all the
\* same, while another comment stays stored
C8_Witness ==
    /\ Called("deleteComment") /\ Failed(UnauthorizedComment)
    /\ last.args.commentId \in DOMAIN last.pre.comments
    /\ last.args.commentId \notin DOMAIN commentStorage
    /\ commentStorage # EmptyMap

\* C9: after deleteQuote(quoteId, authorId) returns Ok the quote is not stored
\* and no stored comment has that quoteId, whoever wrote it
C9_DeleteQuoteRemovesAllComments ==
    (Called("deleteQuote") /\ last.res.ok) =>
        /\ last.args.quoteId \notin DOMAIN quoteStorage
        /\ \A c \in RecordsOf(commentStorage) : c.quoteId # last.args.quoteId

\* a deleteQuote that succeeded on a quote carrying two comments, the first of
\* them (in the order of the cascade) written by somebody else, so that the
\* inner deleteComment fails before the second comment is reached
C9_Witness ==
    /\ Called("deleteQuote") /\ last.res.ok
    /\ \E k1, k2 \in DOMAIN last.pre.comments :
          /\ KeyLess(k1, k2)
          /\ last.pre.comments[k1].quoteId = last.args.quoteId
          /\ last.pre.comments[k2].quoteId = last.args.quoteId
          /\ last.pre.comments[k1].authorId # last.args.authorId
          /\ ~deleteComment(last.pre, last.args.quoteId,
                            last.pre.comments[k1].id, last.args.authorId).res.ok

\* C10: getAllQuotes answers 'At the moment there is no quote...' when the
\* quote store is empty and otherwise Ok with one {id, quote, author} entry per
\* stored quote, and nothing else
C10_GetAllQuotes ==
    Called("getAllQuotes") =>
        IF last.pre.quotes = EmptyMap
        THEN Failed(EmptyResult)
        ELSE /\ last.res.ok
             /\ Len(last.res.val) = Cardinality(DOMAIN last.pre.quotes)
             /\ \A i \in 1..Len(last.res.val) : DOMAIN last.res.val[i] = {"id", "quote", "author"}
             /\ \A q \in RecordsOf(last.pre.quotes) :
                   \E i \in 1..Len(last.res.val) :
                       /\ last.res.val[i] = [id |-> q.id, quote |-> q.quote, author |-> q.author]
                       /\ \A j \in 1..Len(last.res.val) : last.res.val[j].id = q.id => j = i

\* getAllQuotes refused on a store that is empty because every quote created
\* so far has been deleted
C10_Witness ==
    /\ Called("getAllQuotes") /\ Failed(EmptyResult)
    /\ issued.quotes # {}
    /\ quoteStorage = EmptyMap

\* the comments stored on a quote when the call was made
CommentsOnBefore(quoteId) == { c \in RecordsOf(last.pre.comments) : c.quoteId = quoteId }

\* C11: getQuoteComments(quoteId) answers 'No quote found with the given ID.'
\* when no stored quote has that id, whatever comments carry it; 'No comments
\* found for this quote.' when the quote is stored and no stored comment
\* carries its id; and otherwise Ok with the {comment, author} entries of the
\* stored comments that carry it, one entry per comment and nothing else
C11_GetQuoteComments ==
    Called("getQuoteComments") =>
        LET onQuote == CommentsOnBefore(last.args.quoteId)
            Entry(c) == [comment |-> c.comment, author |-> c.authorName]
        IN IF \A q \in RecordsOf(last.pre.quotes) : q.id # last.args.quoteId
           THEN Failed(UnknownQuote)
           ELSE IF onQuote = {}
           THEN Failed(NoComments)
           ELSE /\ last.res.ok
                /\ Len(last.res.val) = Cardinality(onQuote)
                /\ \A i \in 1..Len(last.res.val) :
                      \E c \in onQuote : last.res.val[i] = Entry(c)
                /\ \A c \in onQuote :
                      Cardinality({ i \in 1..Len(last.res.val) : last.res.val[i] = Entry(c) })
                          = Cardinality({ d \in onQuote : Entry(d) = Entry(c) })

\* getQuoteComments refused for want of the quote while a stored comment
\* carries the id asked for
C11_Witness ==
    /\ Called("getQuoteComments") /\ Failed(UnknownQuote)
    /\ CommentsOnBefore(last.args.quoteId) # {}

\* C12: a user returned by a successful newUser is found again by
\* getMyUserData with the same name and pin code for as long as the user is
\* stored: right after the newUser, and in every getMyUserData call made with
\* the name and pin code of a stored user, the answer is Ok with that user's
\* id, name and pin code
C12_RoundTrip ==
    /\ (Called("newUser") /\ last.res.ok) =>
          LET r == getMyUserData(DB, last.args).res
          IN r.ok /\ r.val.id = last.res.val.id
                  /\ r.val.name = last.args.name /\ r.val.pinCode = last.args.pinCode
    /\ Called("getMyUserData") =>
          \A u \in RecordsOf(last.pre.users) :
              (u.name = last.args.name /\ u.pinCode = last.args.pinCode) =>
                  /\ last.res.ok
                  /\ last.res.val.id = u.id
                  /\ last.res.val.name = u.name
                  /\ last.res.val.pinCode = u.pinCode

\* getMyUserData answered with a user who is not the first of the two users
\* stored
C12_Witness ==
    /\ Called("getMyUserData") /\ last.res.ok
    /\ Cardinality(DOMAIN userStorage) = 2
    /\ \E k \in DOMAIN userStorage :
          KeyLess(k, last.res.val.id \o last.res.val.pinCode)

\* a user of the history who is still stored
StillStored(h) == \E u \in RecordsOf(userStorage) : u.id = h.id

\* C13, as stated: over the whole run, two users returned by successful newUser
\* calls with different ids have different names
C13_NamesNeverReused ==
    \A h1, h2 \in createdUsers : h1.id # h2.id => h1.name # h2.name

\* C13, amended: two users returned by successful newUser calls with different
\* ids have different names as long as both are stored; once deleteUser has
\* removed a user, newUser accepts that name again
C13_NamesUniqueWhileStored ==
    \A h1, h2 \in createdUsers :
        (h1.id # h2.id /\ StillStored(h1) /\ StillStored(h2)) => h1.name # h2.name

\* a name given a second time: its first holder was deleted, its second holder
\* is stored
C13_Witness ==
    \E h1, h2 \in createdUsers :
        /\ h1.id # h2.id /\ h1.name = h2.name
        /\ ~StillStored(h1) /\ StillStored(h2)

\* C14, as stated: deleteQuote answers 'Quote with given Id not found.' when
\* no stored quote has the id, and the not-the-owner error only when the quote
\* is stored and its authorId is not the argument
C14_DeleteQuoteErrors ==
    Called("deleteQuote") =>
        /\ (\A q \in RecordsOf(last.pre.quotes) : q.id # last.args.quoteId)
              => Failed(QuoteNotFound)
        /\ Failed(NotOwner) =>
              \E q \in RecordsOf(last.pre.quotes) :
                  q.id = last.args.quoteId /\ q.authorId # last.args.authorId

\* C15: a quote newQuote returns carries, as author, the name of the stored
\* user whose id is its authorId, and is stored as returned; a comment
\* addComment returns carries that user's name as authorName, and is stored as
\* returned; and no call changes the author of a quote or the authorName of a
\* comment that stays stored
C15_DenormalizedNames ==
    /\ (Called("newQuote") /\ last.res.ok) =>
          /\ \E u \in RecordsOf(last.pre.users) : u.id = last.args.authorId
          /\ \A u \in RecordsOf(last.pre.users) :
                u.id = last.args.authorId => last.res.val.author = u.name
          /\ last.res.val.authorId = last.args.authorId
          /\ last.res.val.id \in DOMAIN quoteStorage
          /\ quoteStorage[last.res.val.id] = last.res.val
    /\ (Called("addComment") /\ last.res.ok) =>
          /\ \E u \in RecordsOf(last.pre.users) : u.id = last.args.authorId
          /\ \A u \in RecordsOf(last.pre.users) :
                u.id = last.args.authorId => last.res.val.authorName = u.name
          /\ last.res.val.authorId = last.args.authorId
          /\ last.res.val.id \in DOMAIN commentStorage
          /\ commentStorage[last.res.val.id] = last.res.val
    /\ \A k \in (DOMAIN quoteStorage) \cap (DOMAIN last.pre.quotes) :
          quoteStorage[k].author = last.pre.quotes[k].author
    /\ \A k \in (DOMAIN commentStorage) \cap (DOMAIN last.pre.comments) :
          commentStorage[k].authorName = last.pre.comments[k].authorName

\* a quote created for the second of two stored users, who have different
\* names, while another quote stays stored
C15_Witness ==
    /\ Called("newQuote") /\ last.res.ok
    /\ Cardinality(DOMAIN last.pre.users) = 2
    /\ \E k \in DOMAIN last.pre.users :
          /\ last.pre.users[k].id # last.args.authorId
          /\ KeyLess(k, last.args.authorId \o <<1>>)
          /\ last.pre.users[k].name # last.res.val.author
    /\ last.pre.quotes # EmptyMap

\* C16: getAllQuotes, getQuoteComments and getMyUserData leave the user, quote
\* and comment stores as they were, whatever they answer
C16_QueriesReadOnly ==
    (Called("getAllQuotes") \/ Called("getQuoteComments") \/ Called("getMyUserData"))
        => StoresUnchanged

\* a getMyUserData that answered Ok on stores that hold users, quotes and
\* comments
C16_Witness ==
    /\ Called("getMyUserData") /\ last.res.ok
    /\ userStorage # EmptyMap /\ quoteStorage # EmptyMap /\ commentStorage # EmptyMap

\* C17, as stated.  Calls run one at a time, so two calls submitted together
\* are admitted one after the other, in either order.  For deleteUser(U, pin)
\* and a newQuote for U or an addComment on a quote of U: if deleteUser goes
\* first the creation fails, if the creation goes first the cascade removes
\* the new record; and no call starts on stores where a quote's author is not
\* stored.
NoQuoteWithoutAuthor(db) ==
    \A q \in RecordsOf(db.quotes) : \E u \in RecordsOf(db.users) : u.id = q.authorId

C17_DeleteThenCreate ==
    (Called("deleteUser") /\ last.res.ok) =>
        /\ (last'.op = "newQuote" /\ last'.args.authorId = last.args.userId)
              => ~last'.res.ok
        /\ (/\ last'.op = "addComment"
            /\ \E q \in QuotesOwnedBefore(last.args.userId) : q.id = last'.args.quoteId)
              => ~last'.res.ok

C17_CreateThenDelete ==
    (last'.op = "deleteUser" /\ last'.res.ok) =>
        /\ (Called("newQuote") /\ last.res.ok /\ last.args.authorId = last'.args.userId)
              => last.res.val.id \notin DOMAIN quoteStorage'
        /\ (/\ Called("addComment") /\ last.res.ok
            /\ \E q \in RecordsOf(quoteStorage) :
                  q.id = last.args.quoteId /\ q.authorId = last'.args.userId)
              => last.res.val.id \notin DOMAIN commentStorage'

C17_SerializedCalls ==
    /\ [](NoQuoteWithoutAuthor(DB) /\ NoQuoteWithoutAuthor(last.pre))
    /\ [][C17_DeleteThenCreate /\ C17_CreateThenDelete]_vars

\* C20: deleteUser called with an id that no stored user has, or with a pin
\* code other than the stored user's, returns an error and leaves the user,
\* quote and comment stores unchanged
WrongCredentials(userId, pinCode) ==
    \/ ~\E u \in RecordsOf(last.pre.users) : u.id = userId
    \/ \E u \in RecordsOf(last.pre.users) : u.id = userId /\ u.pinCode # pinCode

C20_DeleteUserWrongCredentials ==
    (Called("deleteUser") /\ WrongCredentials(last.args.userId, last.args.pinCode))
        => (IsErr(last.res) /\ StoresUnchanged)

\* deleteUser with the wrong pin code for a stored user who owns a quote that
\* has a comment
C20_Witness ==
    /\ Called("deleteUser")
    /\ \E u \in RecordsOf(last.pre.users) :
          /\ u.id = last.args.userId /\ u.pinCode # last.args.pinCode
          /\ \E q \in RecordsOf(quoteStorage) :
                /\ q.authorId = u.id
                /\ \E c \in RecordsOf(commentStorage) : c.quoteId = q.id

\* ================================================================
\* The revision src/unnamed/part_000 of the canister.  Same three stores;
\* users are keyed by id alone, newQuote and addComment store their payload
\* as given, and deleteUser takes the user id only and reads ic.caller().
\* Its handlers carry the suffix P0.
\* ================================================================

\* ic.caller().toString(): the textual principal of the caller of a call
Principals == { <<9>> }
\* the authorId of a quote payload and of deleteQuote is any text: a user id
\* or a principal
AuthorIdsP0 == UserIds \cup Principals
\* the author / authorName text of a payload
AuthorNamesP0 == {"alice"}
\* names and pin codes given to newUser and getMyUserData in this revision
NamesP0 == {"", "alice"}
\* the empty string, refused by the `!x` checks
Empty == <<>>

\* StableBTreeMap.get
MapGet(m, k) == IF k \in DOMAIN m THEN [some |-> TRUE, val |-> m[k]] ELSE [some |-> FALSE]

getAllQuotesP0(db) == Ret(db, Ok(MapValues(db.quotes)))

getQuoteCommentsP0(db, quoteId) ==
    LET quoteById == MapGet(db.quotes, quoteId)
        allComments == MapValues(db.comments)
        OnQuote(c) == c.quoteId = quoteId
        quoteComments == Filter(allComments, {x \in Elems(allComments) : OnQuote(x)})
        commentsToDisplay == [i \in 1..Len(quoteComments) |->
                                 [comment |-> quoteComments[i].comment,
                                  author |-> quoteComments[i].authorName]]
    IN IF ~quoteById.some
       THEN Ret(db, Err("No quote found with the given ID."))
       ELSE IF Len(quoteComments) = 0
       THEN Ret(db, Err("No comments found for this quote."))
       ELSE Ret(db, Ok(commentsToDisplay))

getMyUserDataP0(db, payload) ==
    LET allUsers == MapValues(db.users)
        Match(u) == u.name = payload.name /\ u.pinCode = payload.pinCode
        userData == Find(allUsers, {x \in Elems(allUsers) : Match(x)})
    IN IF payload.name = "" \/ payload.pinCode = Empty
       THEN Ret(db, Err("Invalid payload properties for getting user data"))
       ELSE IF userData.defined
       THEN Ret(db, Ok(userData.val))
       ELSE Ret(db, Err("No user found with these credentials"))

newUserP0(db, payload, id, t) ==
    LET allUsers == MapValues(db.users)
        SameName(u) == u.name = payload.name
        checkUserName == Find(allUsers, {x \in Elems(allUsers) : SameName(x)})
        user == [id |-> id, created |-> t, lastUpdate |-> None,
                 name |-> payload.name, pinCode |-> payload.pinCode]
    IN IF payload.name = "" \/ payload.pinCode = Empty
       THEN Ret(db, Err("Invalid payload properties for creating a new user"))
       ELSE IF checkUserName.defined
       THEN Ret(db, Err("Sorry, this name is already in use..."))
       ELSE Ret([db EXCEPT !.users = MapInsert(@, user.id, user)], Ok(user))

newQuoteP0(db, newUserQuote, id, t) ==
    LET quote == [id |-> id, created |-> t, lastUpdate |-> None,
                  authorId |-> newUserQuote.authorId,
                  author |-> newUserQuote.author,
                  quote |-> newUserQuote.quote]
    IN Ret([db EXCEPT !.quotes = MapInsert(@, quote.id, quote)], Ok(quote))

addCommentP0(db, newComment, id, t) ==
    LET commentToAdd == [id |-> id, created |-> t, lastUpdate |-> None,
                         authorId |-> newComment.authorId,
                         authorName |-> newComment.authorName,
                         quoteId |-> newComment.quoteId,
                         comment |-> newComment.comment]
    IN Ret([db EXCEPT !.comments = MapInsert(@, commentToAdd.id, commentToAdd)],
           Ok(commentToAdd))

deleteCommentP0(db, quoteId, commentId, authorId) ==
    LET deleteResult == MapRemoved(db.comments, commentId)
        after == [db EXCEPT !.comments = MapRemove(@, commentId)]
    IN IF quoteId = Empty \/ commentId = Empty \/ authorId = Empty
       THEN Ret(db, Err("Invalid payload properties for deleting a comment"))
       ELSE IF ~deleteResult.some
       THEN Ret(after, Err("Comment with given Id not found."))
       ELSE IF deleteResult.val.quoteId # quoteId
       THEN Ret(after, Err(Mismatch))
       ELSE IF deleteResult.val.authorId # authorId
       THEN Ret(after, Err(UnauthorizedComment))
       ELSE Ret(after, Ok(deleteResult.val))

\* commentsToDelete.forEach((c) => deleteComment(quoteId, c.id, authorId))
RECURSIVE ForEachDeleteCommentP0(_, _, _, _)
ForEachDeleteCommentP0(db, commentsToDelete, quoteId, authorId) ==
    IF commentsToDelete = <<>> THEN db
    ELSE ForEachDeleteCommentP0(
             deleteCommentP0(db, quoteId, Head(commentsToDelete).id, authorId).db,
             Tail(commentsToDelete), quoteId, authorId)

deleteQuoteP0(db, quoteId, authorId) ==
    LET ownedQuote == MapGet(db.quotes, quoteId)
        deleteResult == MapRemoved(db.quotes, quoteId)
        after == [db EXCEPT !.quotes = MapRemove(@, quoteId)]
        allComments == MapValues(after.comments)
        OnQuote(c) == c.quoteId = quoteId
        commentsToDelete == Filter(allComments, {x \in Elems(allComments) : OnQuote(x)})
    IN IF quoteId = Empty \/ authorId = Empty
       THEN Ret(db, Err("Invalid payload properties for deleting a quote"))
       ELSE IF ~ownedQuote.some
       THEN Ret(db, Err(NotOwner))
       ELSE IF ownedQuote.val.authorId # authorId
       THEN Ret(db, Err(NotOwner))
       ELSE IF deleteResult.some
       THEN Ret(ForEachDeleteCommentP0(after, commentsToDelete, quoteId, authorId),
                Ok(deleteResult.val))
       ELSE Ret(after, Err(QuoteNotFound))

\* userQuotes.forEach((q) => deleteQuote(q.id, ic.caller().toString()))
RECURSIVE ForEachDeleteQuoteP0(_, _, _)
ForEachDeleteQuoteP0(db, userQuotes, caller) ==
    IF userQuotes = <<>> THEN db
    ELSE ForEachDeleteQuoteP0(deleteQuoteP0(db, Head(userQuotes).id, caller).db,
                              Tail(userQuotes), caller)

\* caller is ic.caller().toString() of the call
deleteUserP0(db, userId, caller) ==
    LET userToDelete == MapRemoved(db.users, userId)
        after == [db EXCEPT !.users = MapRemove(@, userId)]
        allQuotes == MapValues(after.quotes)
        ByCaller(q) == q.authorId = caller
        userQuotes == Filter(allQuotes, {x \in Elems(allQuotes) : ByCaller(x)})
    IN IF userId = Empty
       THEN Ret(db, Err("Invalid payload properties for deleting a user"))
       ELSE IF userToDelete.some
       THEN Ret(ForEachDeleteQuoteP0(after, userQuotes, caller), Ok(userToDelete.val))
       ELSE Ret(after, Err("No user found with those credentials."))

\* ------------------------------------------------- actions of part_000
CallGetAllQuotesP0 ==
    \E r \in {getAllQuotesP0(DB)} :
        /\ Commit("getAllQuotes", <<>>, r)
        /\ UNCHANGED <<issued, createdUsers>>

CallGetQuoteCommentsP0 ==
    \E quoteId \in QuoteIds :
        \E r \in {getQuoteCommentsP0(DB, quoteId)} :
            /\ Commit("getQuoteComments", [quoteId |-> quoteId], r)
            /\ UNCHANGED <<issued, createdUsers>>

CallGetMyUserDataP0 ==
    \E name \in NamesP0, pinCode \in PinCodes :
        \E r \in {getMyUserDataP0(DB, [name |-> name, pinCode |-> pinCode])} :
            /\ Commit("getMyUserData", [name |-> name, pinCode |-> pinCode], r)
            /\ UNCHANGED <<issued, createdUsers>>

CallNewUserP0 ==
    \E name \in NamesP0, pinCode \in PinCodes, id \in FreshIds("users") :
        \E r \in {newUserP0(DB, [name |-> name, pinCode |-> pinCode], id, IcTime)} :
            /\ Commit("newUser", [name |-> name, pinCode |-> pinCode], r)
            /\ Fresh("users", id, r)
            /\ createdUsers' = IF r.res.ok
                               THEN createdUsers \cup {[id |-> r.res.val.id, name |-> r.res.val.name]}
                               ELSE createdUsers

CallNewQuoteP0 ==
    \E authorId \in AuthorIdsP0, author \in AuthorNamesP0, quote \in QuoteTexts,
       id \in FreshIds("quotes") :
        \E r \in {newQuoteP0(DB, [authorId |-> authorId, author |-> author,
                                  quote |-> quote], id, IcTime)} :
            /\ Commit("newQuote",
                      [authorId |-> authorId, author |-> author, quote |-> quote], r)
            /\ Fresh("quotes", id, r)
            /\ UNCHANGED createdUsers

CallAddCommentP0 ==
    \E authorId \in UserIds, authorName \in AuthorNamesP0, quoteId \in QuoteIds,
       comment \in CommentTexts, id \in FreshIds("comments") :
        \E r \in {addCommentP0(DB, [authorId |-> authorId, authorName |-> authorName,
                                    quoteId |-> quoteId, comment |-> comment],
                               id, IcTime)} :
            /\ Commit("addComment",
                      [authorId |-> authorId, authorName |-> authorName,
                       quoteId |-> quoteId, comment |-> comment], r)
            /\ Fresh("comments", id, r)
            /\ UNCHANGED createdUsers

CallDeleteQuoteP0 ==
    \E quoteId \in QuoteIds \cup {Empty}, authorId \in AuthorIdsP0 :
        \E r \in {deleteQuoteP0(DB, quoteId, authorId)} :
            /\ Commit("deleteQuote", [quoteId |-> quoteId, authorId |-> authorId], r)
            /\ UNCHANGED <<issued, createdUsers>>

CallDeleteCommentP0 ==
    \E quoteId \in QuoteIds, commentId \in CommentIds, authorId \in UserIds :
        \E r \in {deleteCommentP0(DB, quoteId, commentId, authorId)} :
            /\ Commit("deleteComment",
                      [quoteId |-> quoteId, commentId |-> commentId, authorId |-> authorId], r)
            /\ UNCHANGED <<issued, createdUsers>>

CallDeleteUserP0 ==
    \E userId \in UserIds \cup {Empty}, caller \in Principals :
        \E r \in {deleteUserP0(DB, userId, caller)} :
            /\ Commit("deleteUser", [userId |-> userId, caller |-> caller], r)
            /\ UNCHANGED <<issued, createdUsers>>

NextP0 ==
    \/ CallGetAllQuotesP0
    \/ CallGetQuoteCommentsP0
    \/ CallGetMyUserDataP0
    \/ CallNewUserP0
    \/ CallNewQuoteP0
    \/ CallAddCommentP0
    \/ CallDeleteQuoteP0
    \/ CallDeleteCommentP0
    \/ CallDeleteUserP0

SpecP0 == Init /\ [][NextP0]_vars

\* ------------------------------------------------- claims on part_000
\* quotes whose authorId is the given user id, and comments on such quotes
QuotesOf(userId) == { q \in RecordsOf(quoteStorage) : q.authorId = userId }
CommentsOnQuotesOf(userId) ==
    { c \in RecordsOf(commentStorage) : \E q \in RecordsOf(last.pre.quotes) :
          q.authorId = userId /\ c.quoteId = q.id }

\* C18, as stated, for part_000: after deleteUser(userId) returns Ok, no quote
\* with authorId = userId and no comment on such a quote is stored, whoever
\* called deleteUser
C18_CascadeCompleteP0 ==
    (Called("deleteUser") /\ last.res.ok) =>
        /\ QuotesOf(last.args.userId) = {}
        /\ CommentsOnQuotesOf(last.args.userId) = {}

\* C19, as stated, for part_000: newQuote with an authorId that no stored user
\* has returns the unknown-author error and inserts no quote
C19_NewQuoteUnknownAuthorP0 ==
    (/\ Called("newQuote")
     /\ ~\E u \in RecordsOf(last.pre.users) : u.id = last.args.authorId)
        => (last.res = Err(UnknownAuthor) /\ StoresUnchanged)

\* ------------------------------------------------- keys and frame effects
UserNotFound == "No user found with those credentials."

\* C22: every user is stored under its id followed by its pin code, every quote
\* and every comment under its id; so a deleteUser whose credentials match a
\* stored user and a deleteQuote whose quote is stored and owned by the given
\* author succeed, and neither ever answers 'No user found with those
\* credentials.' or 'Quote with given Id not found.'
C22_ConsistentKeys ==
    /\ \A k \in DOMAIN userStorage : k = userStorage[k].id \o userStorage[k].pinCode
    /\ \A k \in DOMAIN quoteStorage : k = quoteStorage[k].id
    /\ \A k \in DOMAIN commentStorage : k = commentStorage[k].id
    /\ (/\ Called("deleteUser")
        /\ \E u \in RecordsOf(last.pre.users) :
              u.id = last.args.userId /\ u.pinCode = last.args.pinCode)
          => last.res.ok
    /\ (/\ Called("deleteQuote")
        /\ \E q \in RecordsOf(last.pre.quotes) :
              q.id = last.args.quoteId /\ q.authorId = last.args.authorId)
          => last.res.ok
    /\ ~(Called("deleteUser") /\ Failed(UserNotFound))
    /\ ~(Called("deleteQuote") /\ Failed(QuoteNotFound))

\* a deleteUser that passed the credential check, removed the user and two
\* quotes of the user, another user staying stored
C22_Witness ==
    /\ Called("deleteUser") /\ last.res.ok
    /\ Cardinality(QuotesOwnedBefore(last.args.userId)) = 2
    /\ userStorage # EmptyMap

\* C23: a successful deleteUser(U, pin) removes a comment only if it sat on a
\* quote of U; every other comment, those U wrote on other users' quotes
\* included, stays stored as it was
CommentsOffQuotesOf(userId) ==
    { k \in DOMAIN last.pre.comments :
          \A q \in QuotesOwnedBefore(userId) : q.id # last.pre.comments[k].quoteId }

C23_DeleteUserKeepsOtherComments ==
    (Called("deleteUser") /\ last.res.ok) =>
        /\ DOMAIN commentStorage = CommentsOffQuotesOf(last.args.userId)
        /\ \A k \in DOMAIN commentStorage : commentStorage[k] = last.pre.comments[k]

\* after a successful deleteUser(U, pin) a comment that U wrote on another
\* user's stored quote is still stored, and no stored user has its authorId
C23_Witness ==
    /\ Called("deleteUser") /\ last.res.ok
    /\ \E c \in RecordsOf(commentStorage) :
          /\ c.authorId = last.args.userId
          /\ \E q \in RecordsOf(quoteStorage) : q.id = c.quoteId
          /\ ~\E u \in RecordsOf(userStorage) : u.id = c.authorId

\* C24: a successful deleteQuote(quoteId, authorId) removes the quote quoteId
\* and the comments whose quoteId is quoteId, and nothing else: the users, the
\* other quotes and the comments on other quotes are as they were.  No
\* deleteComment changes the user or the quote store.
C24_DeleteQuoteFrame ==
    /\ (Called("deleteQuote") /\ last.res.ok) =>
          /\ userStorage = last.pre.users
          /\ last.args.quoteId \in DOMAIN last.pre.quotes
          /\ quoteStorage = MapRemove(last.pre.quotes, last.args.quoteId)
          /\ DOMAIN commentStorage =
                { k \in DOMAIN last.pre.comments :
                      last.pre.comments[k].quoteId # last.args.quoteId }
          /\ \A k \in DOMAIN commentStorage : commentStorage[k] = last.pre.comments[k]
    /\ Called("deleteComment") =>
          (userStorage = last.pre.users /\ quoteStorage = last.pre.quotes)

\* a deleteQuote that removed a quote with a comment on it, while another
\* quote with a comment on it stays stored
C24_Witness ==
    /\ Called("deleteQuote") /\ last.res.ok
    /\ CommentsOnBefore(last.args.quoteId) # {}
    /\ \E c \in RecordsOf(commentStorage) :
          \E q \in RecordsOf(quoteStorage) : q.id = c.quoteId

\* ------------------------------------------------- the steps of a cascade
\* The stores after each remove call of one handler call, in the order the
\* calls are made.  The stores after the last of them are the handler's.

\* commentsToDelete.forEach(c => deleteComment(quoteId, c.id, authorId)):
\* one commentStorage.remove per comment
RECURSIVE ForEachDeleteCommentSteps(_, _, _, _)
ForEachDeleteCommentSteps(db, commentsToDelete, quoteId, authorId) ==
    IF commentsToDelete = <<>> THEN <<>>
    ELSE LET next == deleteComment(db, quoteId, Head(commentsToDelete).id, authorId).db
         IN <<next>> \o ForEachDeleteCommentSteps(next, Tail(commentsToDelete),
                                                  quoteId, authorId)

\* faulty variant of the steps below: the comments are removed first, the
\* quote last
deleteQuoteStepsCommentsFirst(db, quoteId, authorId) ==
    LET allQuotes == MapValues(db.quotes)
        Owned(q) == q.id = quoteId /\ q.authorId = authorId
        ownedQuote == Find(allQuotes, {x \in Elems(allQuotes) : Owned(x)})
        allComments == MapValues(db.comments)
        OnQuote(c) == c.quoteId = quoteId
        commentsToDelete == Filter(allComments, {x \in Elems(allComments) : OnQuote(x)})
        cascade == ForEachDeleteCommentSteps(db, commentsToDelete, quoteId, authorId)
        cascaded == IF cascade = <<>> THEN db ELSE cascade[Len(cascade)]
    IN IF ~ownedQuote.defined THEN <<>>
       ELSE cascade \o << [cascaded EXCEPT !.quotes = MapRemove(@, quoteId)] >>

\* deleteQuote: quoteStorage.remove(quoteId), then the comments
deleteQuoteSteps(db, quoteId, authorId) ==
    LET allQuotes == MapValues(db.quotes)
        Owned(q) == q.id = quoteId /\ q.authorId = authorId
        ownedQuote == Find(allQuotes, {x \in Elems(allQuotes) : Owned(x)})
        deleteResult == MapRemoved(db.quotes, quoteId)
        after == [db EXCEPT !.quotes = MapRemove(@, quoteId)]
        allComments == MapValues(after.comments)
        OnQuote(c) == c.quoteId = quoteId
        commentsToDelete == Filter(allComments, {x \in Elems(allComments) : OnQuote(x)})
    IN IF ~ownedQuote.defined THEN <<>>
       ELSE IF deleteResult.some /\ Len(commentsToDelete) # 0
       THEN <<after>> \o ForEachDeleteCommentSteps(after, commentsToDelete, quoteId, authorId)
       ELSE <<after>>

\* userQuotes.forEach(q => deleteQuote(q.id, userId))
RECURSIVE ForEachDeleteQuoteSteps(_, _, _)
ForEachDeleteQuoteSteps(db, userQuotes, userId) ==
    IF userQuotes = <<>> THEN <<>>
    ELSE LET steps == deleteQuoteSteps(db, Head(userQuotes).id, userId)
             next == IF steps = <<>> THEN db ELSE steps[Len(steps)]
         IN steps \o ForEachDeleteQuoteSteps(next, Tail(userQuotes), userId)

\* deleteUser: userStorage.remove(userId + pinCode), then the quotes
deleteUserSteps(db, userId, pinCode) ==
    LET allUsers == MapValues(db.users)
        SameId(u) == u.id = userId
        userById == Find(allUsers, {x \in Elems(allUsers) : SameId(x)})
        deleteResult == MapRemoved(db.users, userId \o pinCode)
        after == [db EXCEPT !.users = MapRemove(@, userId \o pinCode)]
        allQuotes == MapValues(after.quotes)
        ByUser(q) == q.authorId = userId
        userQuotes == Filter(allQuotes, {x \in Elems(allQuotes) : ByUser(x)})
    IN IF ~userById.defined \/ userById.val.pinCode # pinCode THEN <<>>
       ELSE IF deleteResult.some /\ Len(userQuotes) # 0
       THEN <<after>> \o ForEachDeleteQuoteSteps(after, userQuotes, userId)
       ELSE <<after>>

\* the stores before the deleteUser call that last describes, followed by the
\* stores after each of its remove calls
CascadeTrace ==
    <<last.pre>> \o deleteUserSteps(last.pre, last.args.userId, last.args.pinCode)

Size(db) ==
    Cardinality(DOMAIN db.users) + Cardinality(DOMAIN db.quotes)
        + Cardinality(DOMAIN db.comments)

\* one remove call: from a to b exactly one record is gone and the others
\* are as they were
RemovesOne(a, b) ==
    /\ Size(b) + 1 = Size(a)
    /\ \A k \in DOMAIN b.users : k \in DOMAIN a.users /\ b.users[k] = a.users[k]
    /\ \A k \in DOMAIN b.quotes : k \in DOMAIN a.quotes /\ b.quotes[k] = a.quotes[k]
    /\ \A k \in DOMAIN b.comments : k \in DOMAIN a.comments /\ b.comments[k] = a.comments[k]

\* C21: within one deleteUser call the removals go top-down.  The first remove
\* takes the user; a quote is removed only when no user with the given id is
\* stored any more; a comment is removed only when its quote is no longer
\* stored.  The steps are those of the call: each removes one record and the
\* last leaves the stores the call leaves.
C21_TopDownCascade ==
    Called("deleteUser") =>
        LET t == CascadeTrace
        IN /\ t[Len(t)] = DB
           /\ last.res.ok <=> Len(t) > 1
           /\ Len(t) > 1 => DOMAIN t[2].users # DOMAIN t[1].users
           /\ \A i \in 1..(Len(t) - 1) :
                 /\ RemovesOne(t[i], t[i + 1])
                 /\ \A k \in DOMAIN t[i].quotes \ DOMAIN t[i + 1].quotes :
                       /\ t[i].quotes[k].authorId = last.args.userId
                       /\ ~\E u \in RecordsOf(t[i].users) : u.id = last.args.userId
                 /\ \A k \in DOMAIN t[i].comments \ DOMAIN t[i + 1].comments :
                       t[i].comments[k].quoteId \notin DOMAIN t[i].quotes

\* a deleteUser whose cascade made at least four removals, two of them quotes
\* and one a comment
C21_Witness ==
    /\ Called("deleteUser") /\ last.res.ok
    /\ Len(CascadeTrace) >= 5
    /\ Cardinality(DOMAIN last.pre.quotes \ DOMAIN quoteStorage) = 2
    /\ commentStorage # last.pre.comments

====
